---- MODULE Spec2Model ----
(***************************************************************************)
(* gospf: SPF validation of a sender IP against a domain's DNS policy.     *)
(*                                                                         *)
(* A Go string is a sequence of one-character strings; the functions of    *)
(* package strings and package net that spf.go calls are operators that    *)
(* compute what the Go functions compute.  The resolver (net.LookupTXT,    *)
(* net.LookupIP, net.LookupMX) answers from a zone that is chosen in Init  *)
(* and does not change during a behaviour.                                 *)
(***************************************************************************)
EXTENDS Integers, Sequences, FiniteSets, TLC

VARIABLES zone, Cache, pc, call, stack, txtLog, firstErr, ips, ret, hist

vars == <<zone, Cache, pc, call, stack, txtLog, firstErr, ips, ret, hist>>

(***************************************************************************)
(* The({B : x \in {e}}) is B with x standing for the value of e: the value *)
(* a Go statement x := e binds.                                            *)
(***************************************************************************)
The(S) == CHOOSE r \in S : TRUE

(***************************************************************************)
(* Package strings.                                                        *)
(***************************************************************************)
Upper == <<"A","B","C","D","E","F","G","H","I","J","K","L","M",
           "N","O","P","Q","R","S","T","U","V","W","X","Y","Z">>

Lower == <<"a","b","c","d","e","f","g","h","i","j","k","l","m",
           "n","o","p","q","r","s","t","u","v","w","x","y","z">>

LowerChar(c) ==
    IF \E i \in 1..Len(Upper) : Upper[i] = c
    THEN Lower[CHOOSE i \in 1..Len(Upper) : Upper[i] = c]
    ELSE c

ToLower(s) == [i \in 1..Len(s) |-> LowerChar(s[i])]

HasPrefix(s, prefix) ==
    /\ Len(prefix) <= Len(s)
    /\ SubSeq(s, 1, Len(prefix)) = prefix

Least(S) == CHOOSE i \in S : \A j \in S : i <= j

\* The first place at or after from where substr occurs in s; 0 when none.
IndexFrom(s, substr, from) ==
    The({IF hits = {} THEN 0 ELSE Least(hits) :
         hits \in {{i \in from..(Len(s) - Len(substr) + 1) :
              SubSeq(s, i, i + Len(substr) - 1) = substr}}})

\* strings.Index, 1-based; 0 when substr does not occur in s.
Index(s, substr) == IndexFrom(s, substr, 1)

StrContains(s, substr) == Index(s, substr) # 0

RECURSIVE SplitFrom(_, _, _)
SplitFrom(s, sep, from) ==
    The({IF i = 0 THEN <<SubSeq(s, from, Len(s))>>
         ELSE <<SubSeq(s, from, i - 1)>> \o SplitFrom(s, sep, i + Len(sep)) :
         i \in {IndexFrom(s, sep, from)}})

\* strings.Split(s, sep) for a non-empty sep: always at least one element,
\* empty elements kept.
Split(s, sep) == SplitFrom(s, sep, 1)

RECURSIVE ReplaceFrom(_, _, _, _)
ReplaceFrom(s, old, new, from) ==
    The({IF i = 0 THEN SubSeq(s, from, Len(s))
         ELSE SubSeq(s, from, i - 1) \o new
                  \o ReplaceFrom(s, old, new, i + Len(old)) :
         i \in {IndexFrom(s, old, from)}})

\* strings.Replace(s, old, new, -1) for a non-empty old.
Replace(s, old, new) == ReplaceFrom(s, old, new, 1)

RECURSIVE JoinFrom(_, _, _)
JoinFrom(parts, sep, k) ==
    IF k > Len(parts) THEN <<>>
    ELSE IF k = Len(parts) THEN parts[k]
    ELSE parts[k] \o sep \o JoinFrom(parts, sep, k + 1)

\* strings.Join.
Join(parts, sep) == JoinFrom(parts, sep, 1)

(***************************************************************************)
(* Package net: addresses.  A net.IP is a sequence of 4 bytes (IPv4), of   *)
(* 8 sixteen-bit groups (IPv6, two bytes a group), or empty (nil).         *)
(***************************************************************************)
Digits == <<"0","1","2","3","4","5","6","7","8","9">>

HexDigits == <<"0","1","2","3","4","5","6","7","8","9","a","b","c","d","e","f">>

NilIP == <<>>

IsDigit(c) == \E i \in 1..10 : Digits[i] = c

IsHex(c) == \E i \in 1..16 : HexDigits[i] = LowerChar(c)

HexVal(c) == (CHOOSE i \in 1..16 : HexDigits[i] = LowerChar(c)) - 1

\* The number the first n digits of s write in the base.
RECURSIVE NumberTo(_, _, _)
NumberTo(s, base, n) ==
    IF n = 0 THEN 0 ELSE NumberTo(s, base, n - 1) * base + HexVal(s[n])

Number(s, base) == NumberTo(s, base, Len(s))

\* One decimal field of a dotted quad: digits only, no leading zero, <= 255.
IsOctet(f) ==
    /\ Len(f) \in 1..3
    /\ \A i \in 1..Len(f) : IsDigit(f[i])
    /\ Len(f) > 1 => f[1] # "0"
    /\ Number(f, 10) <= 255

Octets(f) ==
    IF Len(f) = 4 /\ \A i \in 1..4 : IsOctet(f[i])
    THEN [i \in 1..4 |-> Number(f[i], 10)]
    ELSE NilIP

parseIPv4(s) == The({Octets(v) : v \in {Split(s, <<".">>)}})

\* One hexadecimal group of an IPv6 address: 1 to 4 hex digits.
IsGroup(g) == Len(g) \in 1..4 /\ \A i \in 1..Len(g) : IsHex(g[i])

Malformed == <<-1>>

\* The fields f as 16-bit groups, the last field being the dotted quad v4
\* when v4 is not nil; Malformed when a field is no group.
GroupsTail(f, v4) ==
    The({IF \A i \in 1..k : IsGroup(f[i])
         THEN [i \in 1..k |-> Number(f[i], 16)]
                  \o (IF v4 # NilIP
                      THEN <<v4[1] * 256 + v4[2], v4[3] * 256 + v4[4]>>
                      ELSE <<>>)
         ELSE Malformed :
         k \in {IF v4 # NilIP THEN Len(f) - 1 ELSE Len(f)}})

GroupsOf(f, tailV4) ==
    The({GroupsTail(f, v4) :
         v4 \in {IF tailV4 /\ StrContains(f[Len(f)], <<".">>)
          THEN parseIPv4(f[Len(f)]) ELSE NilIP}})

\* The groups of a colon-separated list, whose last field may be a dotted
\* quad when tailV4; <<>> for the empty string.
Groups(s, tailV4) ==
    IF Len(s) = 0 THEN <<>>
    ELSE The({GroupsOf(f, tailV4) : f \in {Split(s, <<":">>)}})

Zeros(n) == [i \in 1..n |-> 0]

V6Full(g) == IF Len(g) = 8 /\ g # Malformed THEN g ELSE NilIP

\* l and r around a "::" that stands for at least one group of zeros.
V6Join(l, r) ==
    IF l # Malformed /\ r # Malformed /\ Len(l) + Len(r) < 8
    THEN l \o Zeros(8 - Len(l) - Len(r)) \o r
    ELSE NilIP

V6At(s, e) ==
    IF e = 0 THEN The({V6Full(v) : v \in {Groups(s, TRUE)}})
    ELSE The({V6Join(g[1], g[2]) :
              g \in {<<Groups(SubSeq(s, 1, e - 1), FALSE),
                       Groups(SubSeq(s, e + 2, Len(s)), TRUE)>>}})

parseIPv6(s) == The({V6At(s, e) : e \in {Index(s, <<":", ":">>)}})

ParseBy(s, dot, col) ==
    IF dot = 0 /\ col = 0 THEN NilIP
    ELSE IF col = 0 \/ (dot # 0 /\ dot < col) THEN parseIPv4(s)
    ELSE parseIPv6(s)

\* net.ParseIP: the first '.' or ':' decides the family.
ParseIP(s) ==
    The({ParseBy(s, at[1], at[2]) : at \in {<<Index(s, <<".">>), Index(s, <<":">>)>>}})

\* IP.To4: the 4-byte form of an IPv4 or IPv4-mapped address, else nil.
To4(x) ==
    IF Len(x) = 4 THEN x
    ELSE IF Len(x) = 8 /\ SubSeq(x, 1, 5) = Zeros(5) /\ x[6] = 65535
    THEN <<x[7] \div 256, x[7] % 256, x[8] \div 256, x[8] % 256>>
    ELSE NilIP

RECURSIVE Itoa(_, _)
Itoa(n, base) ==
    IF n < base THEN <<HexDigits[n + 1]>>
    ELSE Itoa(n \div base, base) \o <<HexDigits[(n % base) + 1]>>

\* The first longest run of two or more zero groups: <<start, length>>.
ZeroRun(x) ==
    The({IF runs = {} THEN <<0, 0>>
         ELSE CHOOSE r \in runs :
                      \A q \in runs : r[2] > q[2] \/ (r[2] = q[2] /\ r[1] <= q[1]) :
         runs \in {{r \in (1..8) \X (2..8) :
              /\ r[1] + r[2] - 1 <= 8
              /\ \A i \in r[1]..(r[1] + r[2] - 1) : x[i] = 0}}})

Dotted(v4) == Join([i \in 1..4 |-> Itoa(v4[i], 10)], <<".">>)

Hex(x, lo, hi) == Join([i \in 1..(hi - lo + 1) |-> Itoa(x[lo + i - 1], 16)], <<":">>)

V6String(x, z) ==
    IF z[1] = 0 THEN Hex(x, 1, 8)
    ELSE Hex(x, 1, z[1] - 1) \o <<":", ":">> \o Hex(x, z[1] + z[2], 8)

\* IP.String: dotted decimal for IPv4, RFC 5952 text for IPv6.
IPString(x) ==
    The({IF v4 # NilIP THEN Dotted(v4)
         ELSE The({V6String(x, z) : z \in {ZeroRun(x)}}) :
         v4 \in {To4(x)}})

(***************************************************************************)
(* Package net: networks.  An IPNet is [ok, ip, ones, bits]: the masked    *)
(* address, the prefix length, and 32 or 128.                              *)
(***************************************************************************)
RECURSIVE Pow2(_)
Pow2(n) == IF n = 0 THEN 1 ELSE 2 * Pow2(n - 1)

Clamp(n, lo, hi) == IF n < lo THEN lo ELSE IF n > hi THEN hi ELSE n

\* x with all but its first `ones` bits cleared; w bits a word.
Mask(x, ones, w) ==
    [i \in 1..Len(x) |->
        The({(x[i] \div low) * low :
             low \in {Pow2(w - Clamp(ones - (i - 1) * w, 0, w))}})]

NoNet == [ok |-> FALSE, ip |-> NilIP, ones |-> 0, bits |-> 0]

IsDecimal(s) == Len(s) >= 1 /\ \A j \in 1..Len(s) : IsDigit(s[j])

CIDRNet(ip, n) ==
    IF n > (IF Len(ip) = 4 THEN 32 ELSE 128) THEN NoNet
    ELSE [ok |-> TRUE, ip |-> Mask(ip, n, IF Len(ip) = 4 THEN 8 ELSE 16),
          ones |-> n, bits |-> IF Len(ip) = 4 THEN 32 ELSE 128]

CIDROf(ip, mask) ==
    IF ip = NilIP \/ ~IsDecimal(mask) THEN NoNet
    ELSE The({CIDRNet(ip, n) : n \in {Number(mask, 10)}})

CIDRAt(s, i) ==
    IF i = 0 THEN NoNet
    ELSE The({CIDROf(ip, SubSeq(s, i + 1, Len(s))) :
              ip \in {ParseIP(SubSeq(s, 1, i - 1))}})

\* net.ParseCIDR: address "/" prefix length.
ParseCIDR(s) == The({CIDRAt(s, i) : i \in {Index(s, <<"/">>)}})

\* The 4-byte form of an IPv4 or IPv4-mapped address, else the address.
Short(x) == The({IF v4 # NilIP THEN v4 ELSE x : v4 \in {To4(x)}})

\* The bits of nn's mask: an IPv4-mapped network is compared in its 4-byte
\* form under the last 32 bits of its mask.
Ones(n, nn) ==
    IF n.bits = 128 /\ Len(nn) = 4 THEN Clamp(n.ones - 96, 0, 32) ELSE n.ones

SameNet(nn, xx, ones) ==
    /\ Len(xx) = Len(nn)
    /\ Mask(xx, ones, IF Len(nn) = 4 THEN 8 ELSE 16)
           = Mask(nn, ones, IF Len(nn) = 4 THEN 8 ELSE 16)

\* IPNet.Contains, with networkNumberAndMask.
IPNetContains(n, x) ==
    The({SameNet(a[1], a[2], Ones(n, a[1])) : a \in {<<Short(n.ip), Short(x)>>}})

(***************************************************************************)
(* Errors.  A Go error is [msg, name]; nil is NoErr.                       *)
(***************************************************************************)
Err(msg, name) == [msg |-> msg, name |-> name]

NoErr == Err("nil", <<>>)

ErrNoSPFRecords == Err("No SPF Records found.", <<>>)

ErrTooMany == Err("Too many SPF records found", <<>>)

ErrUnknownRecord == Err("Unknown Record for SPF", <<>>)

(***************************************************************************)
(* The resolver: net.LookupTXT, net.LookupIP, net.LookupMX answer from the *)
(* zone; a name the zone does not hold fails to resolve.                   *)
(***************************************************************************)
LookupTXT(name) ==
    IF name \in DOMAIN zone.txt /\ ~zone.txt[name].err
    THEN [recs |-> zone.txt[name].recs, err |-> NoErr]
    ELSE [recs |-> <<>>, err |-> Err("lookup TXT", name)]

LookupIP(name) ==
    IF name \in DOMAIN zone.ip /\ ~zone.ip[name].err
    THEN [ips |-> zone.ip[name].ips, err |-> NoErr]
    ELSE [ips |-> <<>>, err |-> Err("lookup IP", name)]

LookupMX(name) ==
    IF name \in DOMAIN zone.mx /\ ~zone.mx[name].err
    THEN [hosts |-> zone.mx[name].hosts, err |-> NoErr]
    ELSE [hosts |-> <<>>, err |-> Err("lookup MX", name)]

(***************************************************************************)
(* spf.go                                                                  *)
(***************************************************************************)
V1 == <<"v","=","s","p","f","1">>

SPFRecords(txtRecords) == SelectSeq(txtRecords, LAMBDA r : HasPrefix(r, V1))

\* A mutation of findSPFRecord: several SPF records are accepted.
findSPFRecordAny(txtRecords) ==
    The({IF Len(spfRecords) = 0
         THEN [recs |-> <<>>, err |-> ErrTooMany]
         ELSE [recs |-> spfRecords, err |-> NoErr] :
         spfRecords \in {SPFRecords(txtRecords)}})

findSPFRecord(txtRecords) ==
    The({IF Len(spfRecords) = 0 \/ Len(spfRecords) > 1
         THEN [recs |-> <<>>, err |-> ErrTooMany]
         ELSE [recs |-> spfRecords, err |-> NoErr] :
         spfRecords \in {SPFRecords(txtRecords)}})

NewCache == [d \in {} |-> <<>>]

\* A mutation of CacheHit: the cache is never consulted.
CacheHitNever(cache, domain) == FALSE

CacheHit(cache, domain) == domain \in DOMAIN cache

CachePut(cache, domain, recs) ==
    [d \in DOMAIN cache \cup {domain} |-> IF d = domain THEN recs ELSE cache[d]]

Looked(domain, recs, err, cache) ==
    [recs |-> recs, err |-> err, cache |-> cache, txt |-> <<domain>>]

Found(cache, domain, f) ==
    IF f.err # NoErr THEN Looked(domain, <<>>, f.err, cache)
    ELSE IF Len(f.recs) = 0 THEN Looked(domain, <<>>, ErrNoSPFRecords, cache)
    ELSE Looked(domain, f.recs, NoErr, CachePut(cache, domain, f.recs))

Fetched(cache, domain, t) ==
    IF t.err # NoErr THEN Looked(domain, <<>>, t.err, cache)
    ELSE IF Len(t.recs) = 0 THEN Looked(domain, <<>>, ErrNoSPFRecords, cache)
    ELSE The({Found(cache, domain, f) : f \in {findSPFRecord(t.recs)}})

\* spfChecker.LookupSPFRecords: the records, the error, the cache after the
\* call and the TXT lookups made.
LookupSPFRecords(cache, domain) ==
    IF CacheHit(cache, domain)
    THEN [recs |-> cache[domain], err |-> NoErr, cache |-> cache, txt |-> <<>>]
    ELSE The({Fetched(cache, domain, t) : t \in {LookupTXT(domain)}})

RECURSIVE parseOtherRecord(_, _)
\* The loop of the "mx" branch from the k-th exchange on.
RECURSIVE EachMX(_, _, _)
EachMX(hosts, k, mxIps) ==
    IF k > Len(hosts) THEN [list |-> mxIps, err |-> NoErr]
    ELSE The({IF r.err # NoErr THEN [list |-> <<>>, err |-> r.err]
              ELSE EachMX(hosts, k + 1, mxIps \o r.list) :
              r \in {parseOtherRecord(hosts[k], <<"a">>)}})

AddressesOf(ip) ==
    IF ip.err # NoErr THEN [list |-> <<>>, err |-> ip.err]
    ELSE [list |-> [i \in 1..Len(ip.ips) |-> IPString(ip.ips[i])], err |-> NoErr]

ExchangesOf(mx) ==
    IF mx.err # NoErr THEN [list |-> <<>>, err |-> mx.err]
    ELSE EachMX(mx.hosts, 1, <<>>)

parseOtherRecord(domain, record) ==
    IF record = <<"a">> THEN The({AddressesOf(v) : v \in {LookupIP(domain)}})
    ELSE IF record = <<"m","x">> THEN The({ExchangesOf(v) : v \in {LookupMX(domain)}})
    ELSE [list |-> <<>>, err |-> ErrUnknownRecord]

\* The branch of getIPsForRecord's loop that an element takes.
SectionKind(element) ==
    IF HasPrefix(V1, element) THEN "skip"
    ELSE IF HasPrefix(element, <<"i","p","4">>) THEN "ip4"
    ELSE IF HasPrefix(element, <<"i","n","c","l","u","d","e">>) THEN "include"
    ELSE IF ToLower(element) = <<"a">> \/ ToLower(element) = <<"m","x">> THEN "other"
    ELSE "skip"

IncludeTarget(element) == Replace(element, <<"i","n","c","l","u","d","e",":">>, <<>>)

\* A mutation of WithCidr: a bare IPv4 address is taken as its /24.
WithCidr24(element) ==
    IF ~StrContains(element, <<"/">>)
    THEN IF ~StrContains(element, <<":">>)
         THEN element \o <<"/","2","4">>
         ELSE element \o <<"/","1","2","8">>
    ELSE element

WithCidr(element) ==
    IF ~StrContains(element, <<"/">>)
    THEN IF ~StrContains(element, <<":">>)
         THEN element \o <<"/","3","2">>
         ELSE element \o <<"/","1","2","8">>
    ELSE element

NoRet == [allowed |-> FALSE, err |-> Err("none", <<>>)]

Ret(allowed, err) == [allowed |-> allowed, err |-> err]

RECURSIVE CheckFrom(_, _, _)
\* A mutation of CheckNet: an element that is no CIDR block is skipped.
CheckNetSkip(ip, list, j, elementWithCidr, cidrnet) ==
    IF ~cidrnet.ok THEN CheckFrom(ip, list, j + 1)
    ELSE The({IF IPNetContains(cidrnet, x) THEN Ret(TRUE, NoErr)
              ELSE CheckFrom(ip, list, j + 1) :
              x \in {ParseIP(ip)}})

\* One pass of the loop body of Validate, for the j-th element.
CheckNet(ip, list, j, elementWithCidr, cidrnet) ==
    IF ~cidrnet.ok THEN Ret(FALSE, Err("invalid CIDR address", elementWithCidr))
    ELSE The({IF IPNetContains(cidrnet, x) THEN Ret(TRUE, NoErr)
              ELSE CheckFrom(ip, list, j + 1) :
              x \in {ParseIP(ip)}})

CheckFrom(ip, list, j) ==
    IF j > Len(list) THEN Ret(FALSE, NoErr)
    ELSE The({The({CheckNet(ip, list, j, e, cidrnet) :
                              cidrnet \in {ParseCIDR(e)}}) :
              e \in {WithCidr(list[j])}})

\* The loop of spfChecker.Validate over the resolved elements.
CheckIPs(ip, list) == CheckFrom(ip, list, 1)

(***************************************************************************)
(* The recursion of getIPsForRecord, one loop element a step.  A frame is  *)
(* one activation: its domain, the split record, the index of the next     *)
(* element and cidrIPs.                                                    *)
(***************************************************************************)
MaxDepth == 5

NewFrame(domain, record) ==
    [domain |-> domain, sections |-> Split(record, <<" ">>), i |-> 1, cidrIPs |-> <<>>]

Top == stack[Len(stack)]

Element == Top.sections[Top.i]

InLoop == pc = "resolving" /\ Top.i <= Len(Top.sections)

\* The top activation appends list to cidrIPs and continues with its next element.
Advance(stk, list) ==
    [stk EXCEPT ![Len(stk)] = [@ EXCEPT !.cidrIPs = @ \o list, !.i = @ + 1]]

OnStack(stk, domain) == \E k \in 1..Len(stk) : stk[k].domain = domain

\* A mutation of Recurse: a domain that is being resolved is not entered again.
RecurseOnce(stk, domain, record) ==
    IF OnStack(stk, domain) THEN Advance(stk, <<>>)
    ELSE Append(stk, NewFrame(domain, record))

\* The recursive call of getIPsForRecord for an include.
Recurse(stk, domain, record) == Append(stk, NewFrame(domain, record))

NoIPs == [done |-> FALSE, list |-> <<>>, err |-> NoErr]

NoCall == [ip |-> <<>>, domain |-> <<>>]

NoDump == [is |-> FALSE, keys |-> {}]

\* The top activation returns (list, err): to the activation that called it,
\* which drops err, or to Validate, which checks the elements.
Return(list, err) ==
    IF Len(stack) > 1
    THEN /\ stack' = Advance(SubSeq(stack, 1, Len(stack) - 1), list)
         /\ UNCHANGED <<pc, ips, ret>>
    ELSE /\ stack' = <<>>
         /\ pc' = "idle"
         /\ ips' = [done |-> TRUE, list |-> list, err |-> err]
         /\ ret' = IF err # NoErr THEN Ret(FALSE, err) ELSE CheckIPs(call.ip, list)

Raise(err) == firstErr' = IF firstErr = NoErr THEN err ELSE firstErr

Enter(ip, domain, r) ==
    /\ pc = "idle"
    /\ call' = [ip |-> ip, domain |-> domain]
    /\ Cache' = r.cache
    /\ txtLog' = r.txt
    /\ firstErr' = NoErr
    /\ hist' = [prevRet |-> IF ~hist.dumped.is /\ call = [ip |-> ip, domain |-> domain]
                            THEN ret ELSE NoRet,
                fresh |-> hist.dumped,
                dumped |-> NoDump]
    /\ UNCHANGED zone

\* Validate when LookupSPFRecords fails.
ValidateNoRecords(ip, domain) ==
    \E r \in {LookupSPFRecords(Cache, domain)} :
        /\ r.err # NoErr
        /\ Enter(ip, domain, r)
        /\ ret' = IF r.err = ErrNoSPFRecords THEN Ret(FALSE, NoErr) ELSE Ret(FALSE, r.err)
        /\ ips' = NoIPs
        /\ UNCHANGED <<pc, stack>>

\* Validate up to its call of getIPsForRecord.
ValidateResolve(ip, domain) ==
    \E r \in {LookupSPFRecords(Cache, domain)} :
        /\ r.err = NoErr
        /\ Enter(ip, domain, r)
        /\ stack' = <<NewFrame(domain, r.recs[1])>>
        /\ pc' = "resolving"
        /\ ret' = NoRet
        /\ ips' = NoIPs

StepSkip ==
    /\ InLoop
    /\ SectionKind(Element) = "skip"
    /\ stack' = Advance(stack, <<>>)
    /\ UNCHANGED <<zone, Cache, pc, call, txtLog, firstErr, ips, ret, hist>>

StepIP4 ==
    /\ InLoop
    /\ SectionKind(Element) = "ip4"
    /\ stack' = Advance(stack, <<Replace(Element, <<"i","p","4",":">>, <<>>)>>)
    /\ UNCHANGED <<zone, Cache, pc, call, txtLog, firstErr, ips, ret, hist>>

StepOther ==
    /\ InLoop
    /\ SectionKind(Element) = "other"
    /\ \E r \in {parseOtherRecord(Top.domain, Element)} :
           /\ r.err = NoErr
           /\ stack' = Advance(stack, r.list)
    /\ UNCHANGED <<zone, Cache, pc, call, txtLog, firstErr, ips, ret, hist>>

StepOtherFail ==
    /\ InLoop
    /\ SectionKind(Element) = "other"
    /\ \E r \in {parseOtherRecord(Top.domain, Element)} :
           /\ r.err # NoErr
           /\ Raise(r.err)
           /\ Return(<<>>, r.err)
    /\ UNCHANGED <<zone, Cache, call, txtLog, hist>>

Extracted(domain, t, f) ==
    [domain |-> domain,
     err |-> IF t.err # NoErr THEN t.err ELSE f.err,
     record |-> IF t.err = NoErr /\ f.err = NoErr THEN f.recs[1] ELSE <<>>]

Looking(domain) ==
    The({The({Extracted(domain, t, f) : f \in {findSPFRecord(t.recs)}}) :
         t \in {LookupTXT(domain)}})

\* The include branch up to the recursive call: the TXT lookup and findSPFRecord.
Included(element) == The({Looking(v) : v \in {IncludeTarget(element)}})

StepIncludeFail ==
    /\ InLoop
    /\ SectionKind(Element) = "include"
    /\ \E inc \in {Included(Element)} :
           /\ inc.err # NoErr
           /\ txtLog' = Append(txtLog, inc.domain)
           /\ Raise(inc.err)
           /\ Return(<<>>, inc.err)
    /\ UNCHANGED <<zone, Cache, call, hist>>

StepInclude ==
    /\ InLoop
    /\ SectionKind(Element) = "include"
    /\ Len(stack) < MaxDepth
    /\ \E inc \in {Included(Element)} :
           /\ inc.err = NoErr
           /\ txtLog' = Append(txtLog, inc.domain)
           /\ stack' = Recurse(stack, inc.domain, inc.record)
    /\ UNCHANGED <<zone, Cache, pc, call, firstErr, ips, ret, hist>>

\* The goroutine's stack is exhausted: the runtime ends the process.
StepOverflow ==
    /\ InLoop
    /\ SectionKind(Element) = "include"
    /\ Len(stack) = MaxDepth
    /\ Included(Element).err = NoErr
    /\ pc' = "overflow"
    /\ UNCHANGED <<zone, Cache, call, stack, txtLog, firstErr, ips, ret, hist>>

StepReturn ==
    /\ pc = "resolving"
    /\ Top.i > Len(Top.sections)
    /\ Return(Top.cidrIPs, NoErr)
    /\ UNCHANGED <<zone, Cache, call, txtLog, firstErr, hist>>

Step ==
    \/ StepSkip
    \/ StepIP4
    \/ StepOther
    \/ StepOtherFail
    \/ StepIncludeFail
    \/ StepInclude
    \/ StepOverflow
    \/ StepReturn

\* A mutation of DumpCache: the cache is kept.
DumpCacheKeeps ==
    /\ pc = "idle"
    /\ hist' = [hist EXCEPT !.dumped =
                   [is |-> TRUE, keys |-> IF @.is THEN @.keys ELSE DOMAIN Cache]]
    /\ UNCHANGED <<zone, Cache, pc, call, stack, txtLog, firstErr, ips, ret>>

DumpCache ==
    /\ pc = "idle"
    /\ Cache' = NewCache
    /\ hist' = [hist EXCEPT !.dumped =
                   [is |-> TRUE, keys |-> IF @.is THEN @.keys ELSE DOMAIN Cache]]
    /\ UNCHANGED <<zone, pc, call, stack, txtLog, firstErr, ips, ret>>

(***************************************************************************)
(* The zones the resolver may serve, and the arguments of Validate.        *)
(***************************************************************************)
D1 == <<"d","1">>

D2 == <<"d","2">>

D3 == <<"d","3">>

NX == <<"n","x">>

M1 == <<"m","1",".">>

M2 == <<"m","2",".">>

Host3 == <<"1","0",".","1",".","2",".","3">>

Host4 == <<"1","0",".","1",".","2",".","4">>

Nine == <<"9",".","9",".","9",".","9">>

Loop6 == <<":",":","1">>

Mapped3 == <<":",":","f","f","f","f",":">> \o Host3

NoAddress == <<"x">>

Net8 == <<"1","0",".","0",".","0",".","0","/","8">>

Bad8 == <<"1","0",".","0",".","0","/","8">>

Other == <<"k","=","1">>

Ip4(x) == <<"i","p","4",":">> \o x

Inc(d) == <<"i","n","c","l","u","d","e",":">> \o d

Policy(mechanisms) == Join(<<V1>> \o mechanisms, <<" ">>)

Answer(recs) == [err |-> FALSE, recs |-> recs]

Fails == [err |-> TRUE, recs |-> <<>>]

TopAnswers ==
    { Fails,
      Answer(<<>>),
      Answer(<<Other>>),
      Answer(<<Policy(<<Ip4(Net8)>>), Policy(<<Ip4(Nine)>>)>>),
      Answer(<<Policy(<<Ip4(Host3)>>)>>),
      Answer(<<Policy(<<Ip4(Loop6)>>)>>),
      Answer(<<Policy(<<Ip4(Bad8), Ip4(Net8)>>)>>),
      Answer(<<Policy(<<Ip4(Net8), Ip4(Bad8)>>)>>),
      Answer(<<Policy(<<<<"A">>>>)>>),
      Answer(<<Policy(<<<<"a">>, <<"m","x">>, <<"-","a","l","l">>>>)>>),
      Answer(<<Other, Policy(<<Inc(D2), Ip4(Nine)>>)>>),
      Answer(<<Policy(<<Ip4(Nine), <<>>, Inc(D2)>>)>>),
      Answer(<<Policy(<<Inc(NX), Ip4(Net8)>>)>>),
      Answer(<<Policy(<<<<"M","X">>, Inc(D3)>>)>>),
      Answer(<<Policy(<<Inc(D3), <<"i","p","4">>>>)>>) }

Good2 == Answer(<<Policy(<<Ip4(Host3), Inc(D3)>>)>>)

Good3 == Answer(<<Policy(<<Ip4(Net8)>>)>>)

\* The answers for d2 and d3.
Worlds ==
    { <<Good2, Good3>>,
      <<Answer(<<Policy(<<Inc(D3), <<"a">>>>)>>), Answer(<<Policy(<<<<"a">>>>)>>)>>,
      <<Good2, Fails>>,
      <<Answer(<<Policy(<<Ip4(Net8)>>), Policy(<<Inc(D3)>>)>>), Good3>>,
      <<Answer(<<Policy(<<Inc(D1)>>)>>), Answer(<<Policy(<<Inc(D1)>>)>>)>>,
      <<Answer(<<>>), Answer(<<Policy(<<Ip4(Nine), Inc(D3)>>)>>)>>,
      <<Answer(<<Policy(<<<<"A">>, Inc(D2)>>)>>), Good3>>,
      <<Good2, Answer(<<Policy(<<Inc(D1)>>)>>)>> }

Addresses ==
    [n \in {D1, D2, D3, M1, M2} |->
        IF n = D1 THEN [err |-> FALSE, ips |-> <<<<10, 1, 2, 4>>, <<0, 0, 0, 0, 0, 0, 0, 1>>>>]
        ELSE IF n = D3 THEN [err |-> FALSE, ips |-> <<<<9, 9, 9, 9>>>>]
        ELSE IF n = M1 THEN [err |-> FALSE, ips |-> <<<<10, 1, 2, 3>>>>]
        ELSE [err |-> TRUE, ips |-> <<>>]]

Exchanges ==
    [n \in {D1, D2, D3} |->
        IF n = D1 THEN [err |-> FALSE, hosts |-> <<M1>>]
        ELSE IF n = D2 THEN [err |-> FALSE, hosts |-> <<M1, M2>>]
        ELSE [err |-> TRUE, hosts |-> <<>>]]

Zones ==
    { [txt |-> [n \in {D1, D2, D3} |-> IF n = D1 THEN t ELSE IF n = D2 THEN w[1] ELSE w[2]],
       ip |-> Addresses,
       mx |-> Exchanges] : t \in TopAnswers, w \in Worlds }

Domains == {D1, D2}

IPs == {Host3, Host4, Loop6, Mapped3, NoAddress}

Init ==
    /\ zone \in Zones
    /\ Cache = NewCache
    /\ pc = "idle"
    /\ call = NoCall
    /\ stack = <<>>
    /\ txtLog = <<>>
    /\ firstErr = NoErr
    /\ ips = NoIPs
    /\ ret = NoRet
    /\ hist = [prevRet |-> NoRet, fresh |-> NoDump, dumped |-> NoDump]

Validate ==
    \E ip \in IPs, domain \in Domains :
        \/ ValidateNoRecords(ip, domain)
        \/ ValidateResolve(ip, domain)

Next ==
    \/ Validate
    \/ Step
    \/ DumpCache

Spec == Init /\ [][Next]_vars

\* Every lookup returns, and the goroutine that called Validate keeps running.
FairSpec == Spec /\ WF_vars(Step)

(***************************************************************************)
(* What the resolver serves, read from the zone.                           *)
(***************************************************************************)
Done == pc = "idle" /\ ret # NoRet

Served(d) == d \in DOMAIN zone.txt /\ ~zone.txt[d].err

SPFRecordsOf(d) == SPFRecords(zone.txt[d].recs)

HasPolicy(d) == Served(d) /\ Len(SPFRecordsOf(d)) = 1

PolicyOf(d) == SPFRecordsOf(d)[1]

Range(f) == {f[i] : i \in DOMAIN f}

\* C1: Validate of a domain whose TXT answer holds no record beginning with
\* v=spf1 (no TXT record at all, or only other ones) returns (true, nil).
C1_NoPolicyAllows ==
    (Done /\ Served(call.domain) /\ Len(SPFRecordsOf(call.domain)) = 0)
        => ret = Ret(TRUE, NoErr)

\* C2: a lookup, an extraction or the A/MX helper that fails while the
\* mechanisms are resolved, at any include depth, makes Validate return
\* (false, that error).
C2_FailuresPropagate ==
    (Done /\ firstErr # NoErr) => ret = Ret(FALSE, firstErr)

\* C3 as stated: the second of two Validate calls for the same address and
\* domain, with no DumpCache in between, returns what the first returned and
\* makes no TXT lookup.
C3_SecondCallNoLookup ==
    (Done /\ hist.prevRet # NoRet) => (ret = hist.prevRet /\ txtLog = <<>>)

\* C3 as amended: the second call returns what the first returned, and when
\* the first call stored the domain's record in the cache the second makes no
\* TXT lookup for that domain; its TXT lookups are those of the includes it
\* expands.
C3_SecondCallCached ==
    (Done /\ hist.prevRet # NoRet)
        => /\ ret = hist.prevRet
           /\ call.domain \in DOMAIN Cache => call.domain \notin Range(txtLog)

C3_Witness ==
    /\ Done
    /\ hist.prevRet # NoRet
    /\ call.domain \in DOMAIN Cache
    /\ txtLog # <<>>
    /\ ret.allowed

\* C4: a domain whose TXT answer holds two or more records beginning with
\* v=spf1 is never cached, and Validate of it returns (false, a non-nil error).
C4_AmbiguousRejects ==
    /\ \A d \in Domains :
           (Served(d) /\ Len(SPFRecordsOf(d)) >= 2) => d \notin DOMAIN Cache
    /\ (call # NoCall /\ Served(call.domain) /\ Len(SPFRecordsOf(call.domain)) >= 2)
           => (Done /\ ~ret.allowed /\ ret.err # NoErr)

C4_Witness ==
    /\ Done
    /\ Served(call.domain)
    /\ Len(SPFRecordsOf(call.domain)) >= 2
    /\ Cache # NewCache

\* C5: DumpCache leaves the cache empty, and the Validate that follows it
\* begins with a TXT lookup for its domain, also when the domain was cached
\* before.
C5_CacheReset ==
    /\ hist.dumped.is => Cache = NewCache
    /\ hist.fresh.is => (Len(txtLog) >= 1 /\ txtLog[1] = call.domain)

C5_Witness ==
    /\ Done
    /\ hist.fresh.is
    /\ call.domain \in hist.fresh.keys
    /\ call.domain \in DOMAIN Cache

\* The flattening C6 describes, [ok, list]: ok is FALSE when an include has
\* no policy or an a/mx does not resolve.
RECURSIVE Flatten(_, _, _, _)
Resolved(r) == [ok |-> r.err = NoErr, list |-> r.list]

Yield(domain, element, fuel) ==
    IF HasPrefix(element, <<"i","p","4",":">>)
    THEN [ok |-> TRUE, list |-> <<SubSeq(element, 5, Len(element))>>]
    ELSE IF HasPrefix(element, <<"i","n","c","l","u","d","e",":">>)
    THEN The({IF fuel > 0 /\ HasPolicy(d)
              THEN The({Flatten(d, elements, 1, fuel - 1) :
                        elements \in {Split(PolicyOf(d), <<" ">>)}})
              ELSE [ok |-> FALSE, list |-> <<>>] :
              d \in {SubSeq(element, 9, Len(element))}})
    ELSE IF ToLower(element) = <<"a">> \/ ToLower(element) = <<"m","x">>
    THEN The({Resolved(v) : v \in {parseOtherRecord(domain, ToLower(element))}})
    ELSE [ok |-> TRUE, list |-> <<>>]

FlattenRest(first, rest) ==
    [ok |-> first.ok /\ rest.ok, list |-> first.list \o rest.list]

\* The flattening of the elements from the k-th on.
Flatten(domain, elements, k, fuel) ==
    IF k > Len(elements) THEN [ok |-> TRUE, list |-> <<>>]
    ELSE The({FlattenRest(p[1], p[2]) :
              p \in {<<Yield(domain, elements[k], fuel),
                       Flatten(domain, elements, k + 1, fuel)>>}})

Flattened ==
    The({Flatten(call.domain, elements, 1, MaxDepth) :
         elements \in {Split(PolicyOf(call.domain), <<" ">>)}})

\* C6: the elements getIPsForRecord returns are the depth-first flattening of
\* the policy in mechanism order: ip4:<x> yields x, include:<d> the flattening
\* of d's policy, a and mx the resolved addresses, any other mechanism nothing.
C6_Flattening ==
    (ips.done /\ Flattened.ok) => (ips.err = NoErr /\ ips.list = Flattened.list)

SameAddress(x, y) == x # NilIP /\ Short(x) = Short(y)

OnlyIp4(d, addr) == Served(d) /\ SPFRecordsOf(d) = <<Policy(<<Ip4(addr)>>)>>

\* C7: for a policy whose only mechanism is ip4:<addr>, addr without a prefix
\* length, Validate returns (true, nil) for the address addr and (false, nil)
\* for every other address.
C7_BareAddress ==
    \A addr \in {Host3, Loop6} :
        (Done /\ OnlyIp4(call.domain, addr))
            => ret = Ret(SameAddress(ParseIP(call.ip), ParseIP(addr)), NoErr)

C7_Witness ==
    /\ Done
    /\ OnlyIp4(call.domain, Host3)
    /\ call.ip = Host4
    /\ ret = Ret(FALSE, NoErr)

\* C8: Validate never returns the A/MX helper's "Unknown Record for SPF".
C8_UnknownRecordUnreachable == ret.err # ErrUnknownRecord

Parses(element) == ParseCIDR(WithCidr(element)).ok

Covers(element, ip) ==
    The({IPNetContains(p[1], p[2]) :
         p \in {<<ParseCIDR(WithCidr(element)), ParseIP(ip)>>}})

Unparsed == {j \in 1..Len(ips.list) : ~Parses(ips.list[j])}

Matching == {j \in 1..Len(ips.list) : Parses(ips.list[j]) /\ Covers(ips.list[j], call.ip)}

\* C9: over the resolved elements in order, Validate returns (true, nil) at
\* the first element that contains the address when all elements before it
\* parse, (false, error) when an element that does not parse comes before any
\* match, and (false, nil) when all parse and none contains the address.
C9_FirstMatch ==
    (ips.done /\ ips.err = NoErr)
        => ret = IF Matching # {} /\ \A j \in Unparsed : Least(Matching) < j
                 THEN Ret(TRUE, NoErr)
                 ELSE IF Unparsed # {}
                 THEN Ret(FALSE, Err("invalid CIDR address",
                                     WithCidr(ips.list[Least(Unparsed)])))
                 ELSE Ret(FALSE, NoErr)

C9_Witness ==
    /\ ips.done
    /\ ret = Ret(TRUE, NoErr)
    /\ Unparsed # {}

Names == {D1, D2, D3, NX}

Includes(n) ==
    IF HasPolicy(n)
    THEN {IncludeTarget(e) : e \in {x \in Range(Split(PolicyOf(n), <<" ">>)) :
                                        SectionKind(x) = "include"}}
    ELSE {}

\* The names within k includes of a name of S, in the include graph inc.
RECURSIVE Reach(_, _, _)
Reach(inc, S, k) ==
    IF k = 0 THEN S
    ELSE The({Reach(inc, T, k - 1) : T \in {S \cup UNION {inc[n] : n \in S}}})

NoCycleFrom(inc, d) ==
    \A n \in Reach(inc, {d}, Cardinality(Names)) :
        n \notin Reach(inc, inc[n], Cardinality(Names))

\* The include graph below d has no cycle.
Acyclic(d) == The({NoCycleFrom(inc, d) : inc \in {[n \in Names |-> Includes(n)]}})

\* The next element is an include of a domain that is being resolved.
CycleClosing ==
    /\ InLoop
    /\ SectionKind(Element) = "include"
    /\ \E inc \in {Included(Element)} : inc.err = NoErr /\ OnStack(stack, inc.domain)

Looping ==
    \/ pc = "overflow"
    \/ /\ pc = "resolving"
       /\ \E j, k \in 1..Len(stack) : j < k /\ stack[j].domain = stack[k].domain

\* C10: Validate of a domain whose include graph has no cycle returns, and
\* once an include leads back to a domain that is being resolved Validate
\* never returns.
C10_Termination ==
    /\ (pc = "resolving" /\ Acyclic(call.domain)) ~> (pc = "idle")
    /\ [][(CycleClosing \/ Looping) => Looping']_vars

C10_Witness ==
    /\ pc = "overflow"
    /\ Len(stack) = MaxDepth
    /\ OnStack(SubSeq(stack, 1, Len(stack) - 1), Top.domain)

====
